---- MODULE Spec2Model ----
(***************************************************************************)
(* Model of the gold market-data collector: the four source clients, the   *)
(* per-cycle orchestration (DataCollector), the valuation (NAVCalculator), *)
(* the SQLite store (DatabaseManager), the two loops that drive cycles     *)
(* (DataCollector.start_real_time_collection, main.background_data_        *)
(* collector), their start and stop entry points and the /api/latest       *)
(* handler of main.                                                        *)
(*                                                                         *)
(* Prices are integers (won); the NAV is kept in hundredths of a won, so   *)
(* that round(x, 2) is an integer rounding.  Python values are records     *)
(* with a "kind" field: None, an error string, a raised exception, a dict. *)
(***************************************************************************)
EXTENDS Integers, Sequences, FiniteSets, TLC

\* ---------------------------------------------------------------- bounds
\* Largest current price a venue reports (0 = "no price").
MaxPrice == 1
\* Largest reference price handed to the valuation when it is checked alone.
MaxNavPrice == 4
\* Most rows the gold_data table holds when the store is checked alone.
MaxRows == 2

\* ------------------------------------------------------- program constants
gold_holding_per_cu == 14000
total_shares == 100000
\* the reference price of nav_calculator.test_nav_calculator's full-data test
SampleSpotPrice == 155000
\* requests.get(..., timeout=10) of the Yahoo client, in seconds
YahooTimeout == 10
\* the loop period of start_real_time_collection, in tenths of a second
Period == 10
\* asyncio.sleep(1) of background_data_collector, in tenths of a second
ServerSleep == 10
\* the default of get_latest_data's limit
DefaultLimit == 10

\* ------------------------------------------------------------ Python values
NoneV == [kind |-> "None"]
StrV == [kind |-> "str"]
RaiseV == [kind |-> "raise"]
Unfetched == [kind |-> "unfetched"]

\* A client's dict: current price, best bid, best ask (bid_price_1 / bid_price,
\* ask_price_1 / ask_price in the source); the sizes are not varied.
Snapshot(c, b, a) ==
    [kind |-> "dict", current_price |-> c, bid_price |-> b, ask_price |-> a,
     bid_volume |-> 0, ask_volume |-> 0]

\* The Yahoo client's dict holds a current price only.
RateDict(c) == [kind |-> "rate", current_price |-> c]

IsDict(v) == v.kind \in {"dict", "rate", "nav"}

\* Python truthiness of the values above: None and the empty list are falsy,
\* a non-empty dict, string or list is truthy.
Truthy(v) ==
    \/ v.kind \in {"dict", "rate", "nav", "str"}
    \/ v.kind = "list" /\ v.rows # << >>

Sources == {"domestic", "us_futures", "gold_spot", "usd_krw"}

\* ------------------------------------------------------------- environment
\* a current price is missing (0) or present
Prices == {0, MaxPrice}
\* a quote side is unknown (0) or present
Quotes == {0, MaxPrice}

\* What a venue does with one request: answers 200/rt_cd "0" with prices,
\* rejects the token (rt_cd "1"), answers another error, the request raises
\* (network, JSON), or the venue never answers.
VenueResponses ==
    [kind : {"ok"}, cur : Prices, bid : Quotes, ask : Quotes]
    \cup {[kind |-> k, cur |-> 0, bid |-> 0, ask |-> 0] : k \in {"rt1", "err", "exc", "hang"}}

\* is_token_valid() / get_access_token() at the head of a brokerage fetch:
\* the token is valid, was renewed, could not be renewed, or the check itself
\* raised (it runs outside the client's try block).
AuthOutcomes == {"valid", "renewed", "renew_failed", "raise"}

\* ---------------------------------------------------------- source clients
\* KoreanInvestmentGoldAPI.get_gold_411060_data: the value returned for an
\* auth outcome and a venue response that arrives (a request with no answer
\* never returns: see FetchDomestic).
get_gold_411060_data(auth, resp) ==
    IF auth = "raise" THEN RaiseV
    ELSE IF auth = "renew_failed" THEN StrV
    ELSE IF resp.kind = "exc" THEN StrV
    ELSE IF resp.kind = "ok" THEN Snapshot(resp.cur, resp.bid, resp.ask)
    ELSE IF resp.kind = "rt1" THEN StrV
    ELSE Snapshot(0, 0, 0)

\* KoreanInvestmentGoldAPI.get_gd_gold_spot: the quote is copied only when
\* the current price is positive; every other path except a token failure
\* returns the all-zero dict.
get_gd_gold_spot(auth, resp) ==
    IF auth = "raise" THEN RaiseV
    ELSE IF auth = "renew_failed" THEN StrV
    ELSE IF resp.kind = "exc" THEN Snapshot(0, 0, 0)
    ELSE IF resp.kind = "ok"
         THEN IF resp.cur > 0 THEN Snapshot(resp.cur, resp.bid, resp.ask)
                              ELSE Snapshot(0, 0, 0)
    ELSE IF resp.kind = "rt1" THEN StrV
    ELSE Snapshot(0, 0, 0)

\* KoreanInvestmentGoldAPI.get_us_gold_futures_data: a response that is not
\* 200/rt_cd "0" falls off the end of the function (None).
get_us_gold_futures_data(auth, resp) ==
    IF auth = "raise" THEN RaiseV
    ELSE IF auth = "renew_failed" THEN StrV
    ELSE IF resp.kind = "exc" THEN StrV
    ELSE IF resp.kind = "ok" THEN Snapshot(resp.cur, resp.bid, resp.ask)
    ELSE NoneV

\* YahooFinanceAPI.get_usd_krw_rate: no token; the request carries
\* timeout=10, so a venue that never answers ends as an exception (None).
get_usd_krw_rate(resp) ==
    IF resp.kind \in {"exc", "hang"} THEN NoneV
    ELSE IF resp.kind = "ok" /\ resp.cur > 0 THEN RateDict(resp.cur)
    ELSE NoneV

\* Whether a request of the client carries a timeout (requests.get(...,
\* timeout=...)): only the Yahoo client's does.
HasRequestTimeout(source) == source = "usd_krw"

\* ------------------------------------------------------------- orchestrator
\* A block of collect_all_data without its try/except: what the client call
\* raises escapes.
ExceptionEscapesUncaught(res) == res.kind = "raise"

\* The except-clauses of collect_all_data (lines 60, 70, 80, 91) catch every
\* Exception a client call raises: nothing escapes to the caller.
ExceptionEscapes(res) == FALSE

\* AcceptDomestic without the price test: every dict is kept.
AcceptDomesticAnyDict(res) ==
    IF res.kind = "dict" THEN res ELSE NoneV

\* collect_all_data, block 1: the domestic ETF result is kept when it is a
\* dict and one of current / bid / ask price is positive.
AcceptDomestic(res) ==
    IF res.kind = "dict"
       /\ (res.current_price > 0 \/ res.bid_price > 0 \/ res.ask_price > 0)
    THEN res ELSE NoneV

\* collect_all_data, blocks 2 to 4: the result is kept when it is a dict and
\* its current price is positive.
AcceptUsFutures(res) ==
    IF res.kind = "dict" /\ res.current_price > 0 THEN res ELSE NoneV

AcceptGoldSpot(res) ==
    IF res.kind = "dict" /\ res.current_price > 0 THEN res ELSE NoneV

AcceptUsdKrw(res) ==
    IF res.kind = "rate" /\ res.current_price > 0 THEN res ELSE NoneV

\* ---------------------------------------------------------------- valuation
\* Python's round(): to the nearest integer multiple, ties to even.
RoundHalfEven(n, d) ==
    LET q == n \div d
        r == n % d
    IN  IF 2 * r < d THEN q
        ELSE IF 2 * r > d THEN q + 1
        ELSE IF q % 2 = 0 THEN q ELSE q + 1

RECURSIVE GCD(_, _)
GCD(a, b) == IF b = 0 THEN a ELSE GCD(b, a % b)

\* NAVCalculator.__init__: nav_multiplier = gold_holding_per_cu / total_shares,
\* kept as the fraction of hundredths per won in lowest terms (14 / 1), so
\* that products stay within 32-bit integers.
nav_multiplier ==
    LET g == GCD(gold_holding_per_cu * 100, total_shares)
    IN  [num |-> (gold_holding_per_cu * 100) \div g, den |-> total_shares \div g]

\* calculate_nav testing only for a missing price (not gold_spot_price),
\* without the test for a non-positive one.
calculate_nav_no_sign_test(gold_spot_price) ==
    IF gold_spot_price = 0
    THEN [kind |-> "nav", nav_value |-> 0, gold_spot_price |-> 0,
          calculation_status |-> "unavailable"]
    ELSE [kind |-> "nav",
          nav_value |-> RoundHalfEven(gold_spot_price * nav_multiplier.num,
                                      nav_multiplier.den),
          gold_spot_price |-> gold_spot_price,
          calculation_status |-> "ok"]

\* NAVCalculator.calculate_nav; the argument is a price (0 stands for every
\* falsy argument), the value is in hundredths.  "unavailable" is the status
\* string of the branch for a missing or non-positive price, "ok" that of the
\* computed branch.
calculate_nav(gold_spot_price) ==
    IF gold_spot_price = 0 \/ gold_spot_price <= 0
    THEN [kind |-> "nav", nav_value |-> 0, gold_spot_price |-> 0,
          calculation_status |-> "unavailable"]
    ELSE [kind |-> "nav",
          nav_value |-> RoundHalfEven(gold_spot_price * nav_multiplier.num,
                                      nav_multiplier.den),
          gold_spot_price |-> gold_spot_price,
          calculation_status |-> "ok"]

\* The current price of a collected entry, 0 when the entry is None.
PriceOrZero(v) == IF Truthy(v) THEN v.current_price ELSE 0

\* The display-only attachment of calculate_nav_with_all_data (data_sources).
data_sources(market_data) ==
    [domestic_etf |-> PriceOrZero(market_data.domestic),
     us_futures |-> PriceOrZero(market_data.us_futures),
     gold_spot |-> PriceOrZero(market_data.gold_spot),
     usd_krw |-> PriceOrZero(market_data.usd_krw)]

\* calculate_nav_with_all_data falling back on the domestic ETF price when
\* the gold spot entry is missing.
calculate_nav_with_fallback(market_data) ==
    IF ~Truthy(market_data.gold_spot) \/ ~IsDict(market_data.gold_spot)
    THEN calculate_nav(PriceOrZero(market_data.domestic))
    ELSE LET nav_result == calculate_nav(market_data.gold_spot.current_price)
         IN  [kind |-> "nav",
              nav_value |-> nav_result.nav_value,
              gold_spot_price |-> nav_result.gold_spot_price,
              calculation_status |-> nav_result.calculation_status,
              data_sources |-> data_sources(market_data)]

\* NAVCalculator.calculate_nav_with_all_data: calculate_nav(0) when the gold
\* spot entry is missing, else calculate_nav on its current price with the
\* other sources' prices attached for display.
calculate_nav_with_all_data(market_data) ==
    IF ~Truthy(market_data.gold_spot) \/ ~IsDict(market_data.gold_spot)
    THEN calculate_nav(0)
    ELSE LET nav_result == calculate_nav(market_data.gold_spot.current_price)
         IN  [kind |-> "nav",
              nav_value |-> nav_result.nav_value,
              gold_spot_price |-> nav_result.gold_spot_price,
              calculation_status |-> nav_result.calculation_status,
              data_sources |-> data_sources(market_data)]

\* format_nav_for_display cutting the value to whole won.
format_nav_for_display_whole(nav_result) ==
    [kind |-> "nav", nav_value |-> (nav_result.nav_value \div 100) * 100]

\* NAVCalculator.format_nav_for_display: a dict holding the value alone.
format_nav_for_display(nav_result) ==
    [kind |-> "nav", nav_value |-> nav_result.nav_value]

\* The calculation_formula string of calculate_nav's computed branch: the
\* price and the two constants it is formatted from.
calculation_formula(gold_spot_price) ==
    [price |-> gold_spot_price, holding |-> gold_holding_per_cu,
     shares |-> total_shares]

\* calculate_nav's dict with a status that carries the time of the call.
calculate_nav_dict_timed_status(gold_spot_price, now) ==
    [calculate_nav(gold_spot_price) EXCEPT !.calculation_status = << @, now >>]
        @@ [timestamp |-> now]

\* The dict calculate_nav returns, in full: the fields of calculate_nav, the
\* calculation_formula of the computed branch, and the timestamp the call
\* reads from the clock (now).
calculate_nav_dict(gold_spot_price, now) ==
    LET nav_result == calculate_nav(gold_spot_price)
    IN  IF nav_result.calculation_status = "ok"
        THEN nav_result @@ [calculation_formula |-> calculation_formula(gold_spot_price),
                            timestamp |-> now]
        ELSE nav_result @@ [timestamp |-> now]

\* The dict calculate_nav_with_all_data returns, in full: that of
\* calculate_nav(0) when the gold spot entry is missing, else that of
\* calculate_nav on its price, updated with data_sources.
calculate_nav_with_all_data_dict(market_data, now) ==
    IF ~Truthy(market_data.gold_spot) \/ ~IsDict(market_data.gold_spot)
    THEN calculate_nav_dict(0, now)
    ELSE [data_sources |-> data_sources(market_data)]
            @@ calculate_nav_dict(market_data.gold_spot.current_price, now)

\* -------------------------------------------------------------------- store
\* SQL NULL (no price of the model is negative).
Null == 0 - 1

\* save_market_data's extraction: data.get(field) if data else None.
Col(data, field) == IF Truthy(data) THEN data[field] ELSE Null

\* The column list of the INSERT statement (lines 96 to 104).
InsertColumns ==
    << "timestamp", "usd_krw_rate", "domestic_current_price", "domestic_bid_price_1",
       "domestic_bid_volume_1", "domestic_ask_price_1", "domestic_ask_volume_1",
       "us_futures_current_price", "us_futures_bid_price_1", "us_futures_bid_volume_1",
       "us_futures_ask_price_1", "us_futures_ask_volume_1",
       "domestic_gold_spot_current_price", "domestic_gold_spot_bid_price_1",
       "domestic_gold_spot_bid_volume_1", "domestic_gold_spot_ask_price_1",
       "domestic_gold_spot_ask_volume_1", "nav_value", "usd_krw_rate", "created_at" >>

\* The number of "?" in the VALUES clause (line 105).
InsertPlaceholders == 19

\* The parameter tuple bound to the INSERT (lines 106 to 112); data holds the
\* five keyword arguments of save_market_data.
BoundValues(timestamp, korean_time, data) ==
    << timestamp, Col(data.usd_krw, "current_price"),
       Col(data.domestic, "current_price"), Col(data.domestic, "bid_price"),
       Col(data.domestic, "bid_volume"), Col(data.domestic, "ask_price"),
       Col(data.domestic, "ask_volume"),
       Col(data.us_futures, "current_price"), Col(data.us_futures, "bid_price"),
       Col(data.us_futures, "bid_volume"), Col(data.us_futures, "ask_price"),
       Col(data.us_futures, "ask_volume"),
       Col(data.gold_spot, "current_price"), Col(data.gold_spot, "bid_price"),
       Col(data.gold_spot, "bid_volume"), Col(data.gold_spot, "ask_price"),
       Col(data.gold_spot, "ask_volume"),
       Col(data.nav, "nav_value"),
       korean_time >>

\* cursor.execute of the INSERT: SQLite prepares the statement only when the
\* VALUES clause has one term per listed column, and binds only as many
\* parameters as there are placeholders; otherwise execute raises.
InsertAccepted(values) ==
    /\ Len(InsertColumns) = InsertPlaceholders
    /\ Len(values) = InsertPlaceholders

\* A row of gold_data: the AUTOINCREMENT id, the values of the INSERT, and
\* the created_at column (the last value, a wall-clock second).
Row(id, values) ==
    [id |-> id, values |-> values, created_at |-> values[Len(values)]]

\* save_market_data returning True from its except-clause as well: a failed
\* append is dropped silently.
save_market_data_silent(table, reachable, values) ==
    IF reachable /\ InsertAccepted(values)
    THEN [ok |-> TRUE, table |-> Append(table, Row(Len(table) + 1, values))]
    ELSE [ok |-> TRUE, table |-> table]

\* DatabaseManager.save_market_data: the value returned and the table after
\* the call.  reachable: whether sqlite3.connect and the commit succeed.
save_market_data(table, reachable, values) ==
    IF reachable /\ InsertAccepted(values)
    THEN [ok |-> TRUE, table |-> Append(table, Row(Len(table) + 1, values))]
    ELSE [ok |-> FALSE, table |-> table]

\* DatabaseManager.get_data_count: SELECT COUNT(*), or 0 from the
\* except-clause when the store cannot be reached.
get_data_count(table, reachable) == IF reachable THEN Len(table) ELSE 0

Min(a, b) == IF a < b THEN a ELSE b

\* ORDER BY created_at DESC: the orders in which SQLite may hand out the rows
\* of the table, as permutations of their positions.  Rows with equal
\* created_at come in an order SQL leaves open.
RowOrders(table) ==
    {p \in [1..Len(table) -> 1..Len(table)] :
        /\ \A i, j \in 1..Len(table) : i # j => p[i] # p[j]
        /\ \A i, j \in 1..Len(table) :
              i < j => table[p[i]].created_at >= table[p[j]].created_at}

\* DatabaseManager.get_latest_data(limit): the lists the call can return,
\* that is the first limit rows of the query's order, or the empty list of
\* the except-clause when the store cannot be reached.
get_latest_data(table, limit, reachable) ==
    IF ~reachable THEN {[kind |-> "list", rows |-> << >>]}
    ELSE {[kind |-> "list",
           rows |-> [i \in 1..Min(limit, Len(table)) |-> table[p[i]]]] :
             p \in RowOrders(table)}

\* collect_and_save_once, line 131: any([...]) over the five entries.
AnyCollected(data) ==
    \/ Truthy(data.domestic)
    \/ Truthy(data.us_futures)
    \/ Truthy(data.gold_spot)
    \/ Truthy(data.nav)
    \/ Truthy(data.usd_krw)

\* -------------------------------------------------------------------- state
VARIABLES
    host,               \* which loop drives the cycles: "collector"
                        \* (start_real_time_collection) or "server"
                        \* (main.background_data_collector)
    pc,                 \* the position of the loop the first start created
    pc2,                \* the position of the loop a second start created
                        \* ("absent" until then)
    running,            \* DataCollector.running
    collection_running, \* main.collection_running
    collected,          \* the locals of collect_all_data: the four entries and nav
    returned,           \* what each client call of this cycle returned
    persist,            \* this cycle's persistence step: calls of
                        \* save_market_data, its result, the count before
    gold_data,          \* the gold_data table
    latest_data,        \* main.latest_data
    response,           \* the reply of the latest GET /api/latest
    stopRequested,      \* stop_collection() or shutdown_event() was called
    sleep_time,         \* the pause computed after the cycle, in tenths
    elapsed,            \* the time the cycle took, in tenths
    overrun,            \* the loop printed its over-one-second warning
    storeLog,           \* store checked alone: the outcomes of the calls
    navArgs,            \* valuation checked alone: the arguments of a call
    navOuts,            \* valuation checked alone: the values returned
    environ,            \* os.environ: whether APP_KEY and APP_SECRET are set
    token_file,         \* token_data.pkl: absent, unreadable, or the expiry
                        \* of the token it holds
    access_token,       \* KoreanInvestmentGoldAPI.access_token
    token_expire_time,  \* KoreanInvestmentGoldAPI.token_expire_time
    session,            \* what the venue thinks of the token the client holds
    api,                \* the construction of the client and the collector
    clientLog           \* client checked alone: the course of the last fetch

vars == << host, pc, pc2, running, collection_running, collected, returned, persist,
           gold_data, latest_data, response, stopRequested, sleep_time, elapsed,
           overrun, storeLog, navArgs, navOuts, environ, token_file, access_token,
           token_expire_time, session, api, clientLog >>

cycleVars == << collected, returned, persist >>
paceVars == << sleep_time, elapsed, overrun >>
clientVars == << environ, token_file, access_token, token_expire_time, session, api,
                clientLog >>
navVars == << navArgs, navOuts, clientVars >>
aloneVars == << storeLog, navArgs, navOuts, clientVars >>

\* collect_all_data, line 36: collection_time = get_korean_time().  Times are
\* in tenths of a second; the cycle starts in the second after those of the
\* rows the table already holds.
collection_time == 10 * (MaxRows + 1)

\* The locals of collect_all_data at its start (lines 36 to 43, 95).
NoData ==
    [domestic |-> NoneV, us_futures |-> NoneV, gold_spot |-> NoneV,
     usd_krw |-> NoneV, nav |-> NoneV, timestamp |-> collection_time]

NoneReturned == [s \in Sources |-> Unfetched]

\* The record of a cycle's persistence step: the calls of save_market_data,
\* what it returned ("true", "false"; "skipped" when it was not called), the
\* table before the step, whether the store could be reached, the values
\* bound to the INSERT, and what the cycle had collected (the sources with
\* an entry, the NAV value).
NoPersist ==
    [calls |-> 0, result |-> "none", before |-> << >>, reachable |-> TRUE,
     values |-> << >>, valid |-> {}, nav |-> Null]

\* Elapsed cycle times offered to the pacing step, in tenths of a second:
\* shorter than, equal to and longer than the period.
ElapsedValues == {3, Period, 14}

\* How long after collection_time save_market_data reads the clock, in
\* tenths of a second: datetime.now() has microsecond resolution and the
\* four requests of the cycle lie between the two readings.
WriteLags == {1}

\* What a cycle of an earlier run collected: a domestic ETF price alone.
OldData ==
    [domestic |-> Snapshot(MaxPrice, 0, 0), us_futures |-> NoneV,
     gold_spot |-> NoneV, usd_krw |-> NoneV,
     nav |-> format_nav_for_display(calculate_nav(0))]

\* A row an earlier run of the program left in market_data.db, written in
\* the given wall-clock second.
OldRow(id, second) == Row(id, BoundValues(10 * second, second, OldData))

\* The tables init_database (CREATE TABLE IF NOT EXISTS) can find: up to
\* MaxRows rows of earlier runs, written in seconds that do not decrease.
StoredTables ==
    UNION {{[i \in 1..k |-> OldRow(i, secs[i])] :
               secs \in {f \in [1..k -> 1..MaxRows] :
                           \A i, j \in 1..k : i < j => f[i] <= f[j]}} :
           k \in 0..MaxRows}

\* The store outside the store's own check: a new file, or one row of an
\* earlier run.
ExistingTables == {<< >>, << OldRow(1, 1) >>}

\* No call of the store checked alone was made yet.  On record: the latest
\* call and whether it reached the store, the appends that reported success
\* since the latest count (succ) and between the latest two (between), what
\* the latest two counts returned, and the latest query with its limit.
NoStoreLog ==
    [op |-> "none", ok |-> TRUE, before |-> 0, succ |-> 0, between |-> 0,
     count |-> Null, prev |-> Null, limit |-> 0, query |-> NoneV]

InitLoops ==
    /\ host \in {"collector", "server"}
    /\ pc = IF host = "collector" THEN "not_started" ELSE "no_task"
    /\ pc2 = "absent"
    /\ running = FALSE
    /\ collection_running = FALSE
    /\ collected = NoData
    /\ returned = NoneReturned
    /\ persist = NoPersist
    /\ latest_data = NoneV
    /\ response = NoneV
    /\ stopRequested = FALSE
    /\ sleep_time = 0
    /\ elapsed = 0
    /\ overrun = FALSE
    /\ storeLog = NoStoreLog

\* No brokerage fetch made yet.
NoClientLog ==
    [source |-> "none", valid_at_start |-> FALSE, renewal |-> "none",
     request |-> FALSE, request_token |-> "none", answer |-> "none",
     stale |-> FALSE, result |-> NoneV, fetches |-> 0]

\* The client as the loops see it: constructed with both credentials and
\* holding a token.
ClientReady ==
    /\ environ = [APP_KEY |-> TRUE, APP_SECRET |-> TRUE]
    /\ token_file = "future"
    /\ access_token = "token"
    /\ token_expire_time = "future"
    /\ session = "live"
    /\ api = "built"
    /\ clientLog = NoClientLog

InitSystem == InitLoops /\ ClientReady

NavIdle ==
    /\ navArgs = NoneV
    /\ navOuts = NoneV

Init == InitSystem /\ NavIdle /\ gold_data \in ExistingTables

\* ---------------------------------------------------------------- the tasks
\* The loops that can exist: the one the first start creates and the one a
\* second start creates.
Tasks == {1, 2}

PcOf(t) == IF t = 1 THEN pc ELSE pc2

Goto(t, p) ==
    IF t = 1 THEN pc' = p /\ pc2' = pc2 ELSE pc2' = p /\ pc' = pc

\* The awaits at which a loop hands control back to the event loop:
\* AwaitPoints plus the fetches, as if the client calls were awaited I/O.
AwaitPointsWithFetch ==
    {"sleeping", "fetch_domestic", "fetch_us", "fetch_spot", "fetch_usd"}

\* The awaits at which a loop hands control back to the event loop: the
\* asyncio.sleep calls only (the awaits of collect_and_save_once and
\* collect_all_data run blocking code to its end).
AwaitPoints == {"sleeping"}

\* A task that does not hold the event loop: it does not exist, has not run
\* yet, is suspended at an await, or has ended.
Parked(p) == p \in AwaitPoints \cup {"absent", "no_task", "not_started", "done"}

\* Task t can take a step: no other task is between two awaits.
CanStep(t) == \A u \in Tasks \ {t} : Parked(PcOf(u))

\* Every loop is suspended (or has not run yet, or has ended): the points at
\* which another coroutine of the event loop can run.
Suspended == \A t \in Tasks : Parked(PcOf(t))

\* ---------------------------------------------------------------- the loops
\* start_real_time_collection, lines 155 to 164: the coroutine begins.
StartCollection ==
    /\ host = "collector"
    /\ pc = "not_started"
    /\ running' = TRUE
    /\ pc' = "loop_check"
    /\ UNCHANGED << host, pc2, collection_running, cycleVars, gold_data, latest_data,
                    response, stopRequested, paceVars, aloneVars >>

\* main.startup_event: the flag is set and the task is created.
Startup ==
    /\ host = "server"
    /\ pc = "no_task"
    /\ collection_running' = TRUE
    /\ pc' = "not_started"
    /\ UNCHANGED << host, pc2, running, cycleVars, gold_data, latest_data,
                    response, stopRequested, paceVars, aloneVars >>

\* background_data_collector, line 44: the task runs up to its loop test.
BeginTask ==
    /\ host = "server"
    /\ \E t \in Tasks :
          /\ PcOf(t) = "not_started"
          /\ CanStep(t)
          /\ Goto(t, "loop_check")
    /\ UNCHANGED << host, running, collection_running, cycleVars, gold_data,
                    latest_data, response, stopRequested, paceVars, aloneVars >>

\* The loop test that goes on whatever the flag holds.
LoopFlagIgnored == TRUE

\* The flag the loop of the host tests.
LoopFlag == IF host = "collector" THEN running ELSE collection_running

\* while self.running / while collection_running: a cycle starts
\* (collect_all_data's locals and the loop's own are fresh), or the loop
\* ends; the collector's finally-clause clears running.
LoopCheck ==
    /\ \E t \in Tasks :
          /\ PcOf(t) = "loop_check"
          /\ CanStep(t)
          /\ IF LoopFlag
             THEN /\ Goto(t, "fetch_domestic")
                  /\ collected' = NoData
                  /\ returned' = NoneReturned
                  /\ persist' = NoPersist
                  /\ response' = NoneV
                  /\ sleep_time' = 0
                  /\ elapsed' = 0
                  /\ overrun' = FALSE
                  /\ UNCHANGED running
             ELSE /\ Goto(t, "done")
                  /\ running' = FALSE
                  /\ UNCHANGED << cycleVars, response, paceVars >>
    /\ UNCHANGED << host, collection_running, gold_data, latest_data,
                    stopRequested, aloneVars >>

\* Where an exception that escapes collect_all_data lands: the collector's
\* loop ends (except Exception, finally: running = False); the server's loop
\* catches it and goes on to its sleep.
AfterEscape(t) ==
    IF host = "collector"
    THEN Goto(t, "done") /\ running' = FALSE
    ELSE Goto(t, "sleeping") /\ UNCHANGED running

\* One block of collect_all_data: the client call returned res, the block
\* keeps kept, and the next block is next.
FetchBlock(t, source, res, kept, next) ==
    /\ returned' = [returned EXCEPT ![source] = res]
    /\ IF res.kind = "raise" /\ ExceptionEscapes(res)
       THEN /\ AfterEscape(t)
            /\ UNCHANGED collected
       ELSE /\ collected' = [collected EXCEPT ![source] = kept]
            /\ Goto(t, next)
            /\ UNCHANGED running

\* A request without a timeout to a venue that never answers: the call, and
\* with it the loop, never returns.
Blocked(t) ==
    /\ Goto(t, "blocked")
    /\ UNCHANGED << running, collected, returned >>

NeverAnswered(source, auth, resp) ==
    /\ resp.kind = "hang"
    /\ auth \in {"valid", "renewed"}
    /\ ~HasRequestTimeout(source)

\* The auth outcomes and venue responses with which a call of the source's
\* client returns.
Answered(source) ==
    {y \in AuthOutcomes \X VenueResponses : ~NeverAnswered(source, y[1], y[2])}

\* Some request of the source's client may never return.
CanHang(source) ==
    \E auth \in AuthOutcomes, resp \in VenueResponses : NeverAnswered(source, auth, resp)

\* collect_all_data, lines 45 to 61.
FetchDomestic ==
    /\ \E t \in Tasks :
          /\ PcOf(t) = "fetch_domestic"
          /\ CanStep(t)
          /\ \/ CanHang("domestic") /\ Blocked(t)
             \/ \E res \in {get_gold_411060_data(y[1], y[2]) : y \in Answered("domestic")} :
                   FetchBlock(t, "domestic", res, AcceptDomestic(res), "fetch_us")
    /\ UNCHANGED << host, collection_running, persist, gold_data, latest_data,
                    response, stopRequested, paceVars, aloneVars >>

\* collect_all_data, lines 63 to 71.
FetchUsFutures ==
    /\ \E t \in Tasks :
          /\ PcOf(t) = "fetch_us"
          /\ CanStep(t)
          /\ \/ CanHang("us_futures") /\ Blocked(t)
             \/ \E res \in {get_us_gold_futures_data(y[1], y[2]) : y \in Answered("us_futures")} :
                   FetchBlock(t, "us_futures", res, AcceptUsFutures(res), "fetch_spot")
    /\ UNCHANGED << host, collection_running, persist, gold_data, latest_data,
                    response, stopRequested, paceVars, aloneVars >>

\* collect_all_data, lines 73 to 81.
FetchGoldSpot ==
    /\ \E t \in Tasks :
          /\ PcOf(t) = "fetch_spot"
          /\ CanStep(t)
          /\ \/ CanHang("gold_spot") /\ Blocked(t)
             \/ \E res \in {get_gd_gold_spot(y[1], y[2]) : y \in Answered("gold_spot")} :
                   FetchBlock(t, "gold_spot", res, AcceptGoldSpot(res), "fetch_usd")
    /\ UNCHANGED << host, collection_running, persist, gold_data, latest_data,
                    response, stopRequested, paceVars, aloneVars >>

\* collect_all_data, lines 83 to 92; the client has no token, so the only
\* auth outcomes are "valid" and an exception raised by the call.
FetchUsdKrw ==
    /\ \E t \in Tasks :
          /\ PcOf(t) = "fetch_usd"
          /\ CanStep(t)
          /\ \E res \in {RaiseV} \cup {get_usd_krw_rate(resp) :
                                        resp \in {r \in VenueResponses : r.kind # "rt1"}} :
                FetchBlock(t, "usd_krw", res, AcceptUsdKrw(res), "valuate")
    /\ UNCHANGED << host, collection_running, persist, gold_data, latest_data,
                    response, stopRequested, paceVars, aloneVars >>

\* collect_all_data, lines 94 to 123: the valuation of what was collected.
Valuate ==
    /\ \E t \in Tasks :
          /\ PcOf(t) = "valuate"
          /\ CanStep(t)
          /\ Goto(t, "persist")
    /\ LET market_data_for_nav ==
               [domestic |-> collected.domestic, us_futures |-> collected.us_futures,
                gold_spot |-> collected.gold_spot, usd_krw |-> collected.usd_krw]
           nav_result == calculate_nav_with_all_data(market_data_for_nav)
       IN  collected' = [collected EXCEPT !.nav = format_nav_for_display(nav_result)]
    /\ UNCHANGED << host, running, collection_running, returned, persist, gold_data,
                    latest_data, response, stopRequested, paceVars, aloneVars >>

\* The sources whose entry of the cycle's result is not None.
Collected == {s \in Sources : Truthy(collected[s])}

\* collect_and_save_once, lines 130 to 151: save when anything was collected.
\* save_market_data reads the clock itself (lines 65, 66): the timestamp is
\* the time of the write, created_at its second.
Persist ==
    /\ \E t \in Tasks :
          /\ PcOf(t) = "persist"
          /\ CanStep(t)
          /\ Goto(t, IF host = "collector" THEN "pace" ELSE "cache")
    /\ \E reachable \in BOOLEAN, lag \in WriteLags :
          IF AnyCollected(collected)
          THEN LET timestamp == collection_time + lag
                   korean_time == timestamp \div 10
                   values == BoundValues(timestamp, korean_time, collected)
                   saved == save_market_data(gold_data, reachable, values)
               IN  /\ gold_data' = saved.table
                   /\ persist' = [calls |-> persist.calls + 1,
                                  result |-> IF saved.ok THEN "true" ELSE "false",
                                  before |-> gold_data,
                                  reachable |-> reachable,
                                  values |-> values,
                                  valid |-> Collected,
                                  nav |-> Col(collected.nav, "nav_value")]
          ELSE /\ reachable
               /\ lag = 0
               /\ persist' = [persist EXCEPT !.result = "skipped",
                                             !.before = gold_data,
                                             !.valid = Collected,
                                             !.nav = Col(collected.nav, "nav_value")]
               /\ UNCHANGED gold_data
    /\ UNCHANGED << host, running, collection_running, collected, returned,
                    latest_data, response, stopRequested, paceVars, aloneVars >>

\* collect_and_save_once has returned: the loops drop the value it returns,
\* so what the cycle collected is gone; the outcome of its persistence step
\* stays on record until the next cycle starts.
Discard ==
    /\ collected' = NoData
    /\ returned' = NoneReturned
    /\ persist' = [persist EXCEPT !.values = << >>]

\* start_real_time_collection, lines 174 to 182: sleep for what is left of
\* the period, or print the warning and go on at once.
Pace ==
    /\ host = "collector"
    /\ \E t \in Tasks :
          /\ PcOf(t) = "pace"
          /\ CanStep(t)
          /\ \E e \in ElapsedValues :
             LET st == IF Period - e > 0 THEN Period - e ELSE 0
             IN  /\ elapsed' = e
                 /\ sleep_time' = st
                 /\ overrun' = ~(st > 0)
                 /\ Goto(t, IF st > 0 THEN "sleeping" ELSE "loop_check")
    /\ Discard
    /\ UNCHANGED << host, running, collection_running, gold_data,
                    latest_data, response, stopRequested, aloneVars >>

\* background_data_collector putting the row the cycle bound in front of the
\* cached rows instead of asking the store.
UpdateCacheFromCycle ==
    /\ host = "server"
    /\ \E t \in Tasks :
          /\ PcOf(t) = "cache"
          /\ CanStep(t)
          /\ Goto(t, "sleeping")
    /\ \E e \in ElapsedValues, reachable \in BOOLEAN :
          /\ \E rows \in get_latest_data(gold_data, DefaultLimit, reachable) :
                latest_data' =
                   IF persist.values = << >> THEN rows
                   ELSE [kind |-> "list",
                         rows |-> << Row(Len(gold_data) + 1, persist.values) >>
                                     \o rows.rows]
          /\ elapsed' = e
          /\ sleep_time' = ServerSleep
          /\ overrun' = FALSE
    /\ Discard
    /\ UNCHANGED << host, running, collection_running, gold_data, response,
                    stopRequested, aloneVars >>

\* background_data_collector, lines 50 to 57: the cache is refreshed from the
\* store, then the loop sleeps a full second, whatever the cycle took.
UpdateCache ==
    /\ host = "server"
    /\ \E t \in Tasks :
          /\ PcOf(t) = "cache"
          /\ CanStep(t)
          /\ Goto(t, "sleeping")
    /\ \E e \in ElapsedValues, reachable \in BOOLEAN :
          /\ latest_data' \in get_latest_data(gold_data, DefaultLimit, reachable)
          /\ elapsed' = e
          /\ sleep_time' = ServerSleep
          /\ overrun' = FALSE
    /\ Discard
    /\ UNCHANGED << host, running, collection_running, gold_data, response,
                    stopRequested, aloneVars >>

\* asyncio.sleep returns.
Wake ==
    /\ \E t \in Tasks :
          /\ PcOf(t) = "sleeping"
          /\ CanStep(t)
          /\ Goto(t, "loop_check")
    /\ UNCHANGED << host, running, collection_running, cycleVars, gold_data,
                    latest_data, response, stopRequested, paceVars, aloneVars >>

\* DataCollector.stop_collection.
StopCollection ==
    /\ host = "collector"
    /\ Suspended
    /\ running' = FALSE
    /\ stopRequested' = TRUE
    /\ UNCHANGED << host, pc, pc2, collection_running, cycleVars, gold_data,
                    latest_data, response, paceVars, aloneVars >>

\* main.collection_task: the task the latest startup created.
collection_task == IF pc2 = "absent" THEN 1 ELSE 2

\* main.shutdown_event: the flag is cleared and collection_task, if there is
\* one, is cancelled at its await.
Shutdown ==
    /\ host = "server"
    /\ Suspended
    /\ collection_running' = FALSE
    /\ stopRequested' = TRUE
    /\ LET p == PcOf(collection_task)
       IN  Goto(collection_task,
                IF p \in AwaitPoints \cup {"not_started"} THEN "done" ELSE p)
    /\ UNCHANGED << host, running, cycleVars, gold_data, latest_data, response,
                    paceVars, aloneVars >>

\* main.get_latest_data without its emptiness test: whatever the cache holds
\* is sent as data.
api_get_latest_data_unchecked(cache, queried) ==
    LET c == IF cache = NoneV THEN queried ELSE cache
    IN  [cache |-> c,
         reply |-> [kind |-> "reply", success |-> TRUE, data |-> c.rows]]

\* main.get_latest_data (GET /api/latest): an unset cache is filled from the
\* store; a non-empty cache is sent as data, an empty one as "no data".
api_get_latest_data(cache, queried) ==
    LET c == IF cache = NoneV THEN queried ELSE cache
    IN  [cache |-> c,
         reply |-> IF Truthy(c)
                   THEN [kind |-> "reply", success |-> TRUE, data |-> c.rows]
                   ELSE [kind |-> "reply", success |-> FALSE, data |-> << >>]]

\* A GET /api/latest is served between two steps of the loops; the reply is
\* on record with what the handler found: whether the cache was unset and
\* whether the store could be reached.
ApiLatest ==
    /\ host = "server"
    /\ pc # "no_task"
    /\ Suspended
    /\ \E reachable \in BOOLEAN :
          \E queried \in get_latest_data(gold_data, DefaultLimit, reachable) :
             LET out == api_get_latest_data(latest_data, queried)
             IN  /\ latest_data' = out.cache
                 /\ response' = [kind |-> "reply",
                                 success |-> out.reply.success,
                                 data |-> out.reply.data,
                                 unset |-> latest_data = NoneV,
                                 reachable |-> reachable]
    /\ UNCHANGED << host, pc, pc2, running, collection_running, cycleVars,
                    gold_data, stopRequested, paceVars, aloneVars >>

Next ==
    \/ StartCollection
    \/ Startup
    \/ BeginTask
    \/ LoopCheck
    \/ FetchDomestic
    \/ FetchUsFutures
    \/ FetchGoldSpot
    \/ FetchUsdKrw
    \/ Valuate
    \/ Persist
    \/ Pace
    \/ UpdateCache
    \/ Wake
    \/ StopCollection
    \/ Shutdown
    \/ ApiLatest

Spec == Init /\ [][Next]_vars

\* With the fairness the event loop gives the loop task: a step the task can
\* take is eventually taken.
LoopStep ==
    \/ StartCollection \/ BeginTask \/ LoopCheck \/ FetchDomestic \/ FetchUsFutures
    \/ FetchGoldSpot \/ FetchUsdKrw \/ Valuate \/ Persist \/ Pace \/ UpdateCache \/ Wake

FairSpec == Init /\ [][Next]_vars /\ WF_vars(LoopStep)

\* ------------------------------------------------------- starting once more
\* start_real_time_collection called while the first loop exists: the call
\* sets running and begins a loop of its own.
StartCollectionAgain ==
    /\ host = "collector"
    /\ pc # "not_started"
    /\ pc2 = "absent"
    /\ Suspended
    /\ running' = TRUE
    /\ pc2' = "loop_check"
    /\ UNCHANGED << host, pc, collection_running, cycleVars, gold_data, latest_data,
                    response, stopRequested, paceVars, aloneVars >>

\* main.startup_event called again: the flag is set and a new task is
\* created, which collection_task now names.
StartupAgain ==
    /\ host = "server"
    /\ pc # "no_task"
    /\ pc2 = "absent"
    /\ Suspended
    /\ collection_running' = TRUE
    /\ pc2' = "not_started"
    /\ UNCHANGED << host, pc, running, cycleVars, gold_data, latest_data,
                    response, stopRequested, paceVars, aloneVars >>

RestartNext ==
    \/ Next
    \/ StartCollectionAgain
    \/ StartupAgain

\* The program with its start entry point invoked up to twice, on a new
\* store.
RestartInit == InitSystem /\ NavIdle /\ gold_data = << >>

RestartSpec == RestartInit /\ [][RestartNext]_vars

\* ---------------------------------------------------- the store on its own
\* The values of the rows offered to save_market_data: what a cycle that
\* collected a domestic ETF price binds.
StoreValues == {BoundValues(collection_time + lag, (collection_time + lag) \div 10,
                            OldData) : lag \in WriteLags}

StoreInit ==
    /\ InitSystem
    /\ NavIdle
    /\ gold_data \in StoredTables

\* DatabaseManager(): init_database runs CREATE TABLE IF NOT EXISTS, or prints
\* the error when the store cannot be reached.
StoreOpen ==
    /\ \E reachable \in BOOLEAN :
          storeLog' = [storeLog EXCEPT !.op = "init", !.ok = reachable]
    /\ UNCHANGED << host, pc, pc2, running, collection_running, cycleVars, gold_data,
                    latest_data, response, stopRequested, paceVars, navVars >>

\* A call of save_market_data that writes over the newest row (INSERT OR
\* REPLACE on its id) where the INSERT is not accepted.
StoreAppendReplacing ==
    /\ \E reachable \in BOOLEAN, values \in StoreValues :
          LET saved == save_market_data(gold_data, reachable, values)
          IN  /\ gold_data' = IF saved.ok \/ gold_data = << >> THEN saved.table
                              ELSE [gold_data EXCEPT ![Len(gold_data)].values = values]
              /\ storeLog' = [storeLog EXCEPT
                                 !.op = "append", !.ok = saved.ok,
                                 !.before = Len(gold_data),
                                 !.succ = IF saved.ok THEN @ + 1 ELSE @]
    /\ UNCHANGED << host, pc, pc2, running, collection_running, cycleVars,
                    latest_data, response, stopRequested, paceVars, navVars >>

\* A call of save_market_data.
StoreAppend ==
    /\ \E reachable \in BOOLEAN, values \in StoreValues :
          LET saved == save_market_data(gold_data, reachable, values)
          IN  /\ gold_data' = saved.table
              /\ storeLog' = [storeLog EXCEPT
                                 !.op = "append", !.ok = saved.ok,
                                 !.before = Len(gold_data),
                                 !.succ = IF saved.ok THEN @ + 1 ELSE @]
    /\ UNCHANGED << host, pc, pc2, running, collection_running, cycleVars,
                    latest_data, response, stopRequested, paceVars, navVars >>

\* A call of get_data_count; prev is what the call before it returned.
StoreCount ==
    /\ \E reachable \in BOOLEAN :
          storeLog' = [storeLog EXCEPT
                          !.op = "count", !.ok = reachable,
                          !.prev = storeLog.count,
                          !.count = get_data_count(gold_data, reachable),
                          !.between = storeLog.succ,
                          !.succ = 0]
    /\ UNCHANGED << host, pc, pc2, running, collection_running, cycleVars, gold_data,
                    latest_data, response, stopRequested, paceVars, navVars >>

\* A call of get_latest_data(limit).
StoreLatest ==
    /\ \E reachable \in BOOLEAN, limit \in 0..(MaxRows + 1) :
          \E rows \in get_latest_data(gold_data, limit, reachable) :
             storeLog' = [storeLog EXCEPT
                             !.op = "latest", !.ok = reachable,
                             !.limit = limit, !.query = rows]
    /\ UNCHANGED << host, pc, pc2, running, collection_running, cycleVars, gold_data,
                    latest_data, response, stopRequested, paceVars, navVars >>

StoreNext == StoreOpen \/ StoreAppend \/ StoreCount \/ StoreLatest

StoreSpec == StoreInit /\ [][StoreNext]_vars

\* ------------------------------------------------- the valuation on its own
\* Reference prices handed to calculate_nav: non-positive ones, small ones
\* and the price of the module's own test.
NavPrices == ((0 - 1)..MaxNavPrice) \cup {SampleSpotPrice}

\* The market_data dicts handed to calculate_nav_with_all_data.
MarketData ==
    [domestic : {NoneV, Snapshot(1, 0, 0), Snapshot(0, MaxNavPrice, 0)},
     us_futures : {NoneV, Snapshot(MaxNavPrice, 0, 0)},
     gold_spot : {NoneV} \cup {Snapshot(p, 0, 0) : p \in NavPrices},
     usd_krw : {NoneV, RateDict(1)}]

\* The clock readings of two calls of the valuation, in tenths of a second.
NavTimes == {0, 1}

NavInit ==
    /\ InitSystem
    /\ gold_data = << >>
    /\ navOuts = NoneV
    /\ navArgs \in [kind : {"calculate_nav"}, price : NavPrices]
                   \cup [kind : {"with_all_data"}, a : MarketData, b : MarketData]
                   \cup [kind : {"twice"}, price : NavPrices, between : NavPrices,
                         t1 : NavTimes, t2 : NavTimes]
                   \cup [kind : {"twice_all"}, a : MarketData, between : NavPrices,
                         t1 : NavTimes, t2 : NavTimes]
    /\ navArgs.kind \in {"twice", "twice_all"} => navArgs.t1 <= navArgs.t2

\* A call of calculate_nav.
ApplyCalculateNav ==
    /\ navArgs.kind = "calculate_nav"
    /\ navOuts = NoneV
    /\ navOuts' = [kind |-> "calculate_nav", out |-> calculate_nav(navArgs.price)]
    /\ UNCHANGED << host, pc, pc2, running, collection_running, cycleVars, gold_data,
                    latest_data, response, stopRequested, paceVars, storeLog,
                    navArgs, clientVars >>

\* Two calls of calculate_nav_with_all_data, one per market_data dict.
ApplyWithAllData ==
    /\ navArgs.kind = "with_all_data"
    /\ navOuts = NoneV
    /\ navOuts' = [kind |-> "with_all_data",
                   a |-> calculate_nav_with_all_data(navArgs.a),
                   b |-> calculate_nav_with_all_data(navArgs.b)]
    /\ UNCHANGED << host, pc, pc2, running, collection_running, cycleVars, gold_data,
                    latest_data, response, stopRequested, paceVars, storeLog,
                    navArgs, clientVars >>

\* calculate_nav called at t1, then with another price, then with the first
\* price again at t2.
ApplyTwice ==
    /\ navArgs.kind = "twice"
    /\ navOuts = NoneV
    /\ navOuts' = [kind |-> "twice",
                   a |-> calculate_nav_dict(navArgs.price, navArgs.t1),
                   mid |-> calculate_nav_dict(navArgs.between, navArgs.t1),
                   b |-> calculate_nav_dict(navArgs.price, navArgs.t2)]
    /\ UNCHANGED << host, pc, pc2, running, collection_running, cycleVars, gold_data,
                    latest_data, response, stopRequested, paceVars, storeLog,
                    navArgs, clientVars >>

\* calculate_nav_with_all_data called at t1, calculate_nav called with
\* another price, then calculate_nav_with_all_data called with the same dict
\* at t2.
ApplyTwiceAllData ==
    /\ navArgs.kind = "twice_all"
    /\ navOuts = NoneV
    /\ navOuts' = [kind |-> "twice",
                   a |-> calculate_nav_with_all_data_dict(navArgs.a, navArgs.t1),
                   mid |-> calculate_nav_dict(navArgs.between, navArgs.t1),
                   b |-> calculate_nav_with_all_data_dict(navArgs.a, navArgs.t2)]
    /\ UNCHANGED << host, pc, pc2, running, collection_running, cycleVars, gold_data,
                    latest_data, response, stopRequested, paceVars, storeLog,
                    navArgs, clientVars >>

NavNext == ApplyCalculateNav \/ ApplyWithAllData \/ ApplyTwice \/ ApplyTwiceAllData

NavSpec == NavInit /\ [][NavNext]_vars

\* ------------------------------------------- the brokerage client on its own
\* The expiry a token carries: ahead of the clock, behind it, or a value
\* that is not a datetime.
Expiries == {"future", "past", "mistyped"}

\* token_data.pkl: absent, not a readable pickle of a token, or a token with
\* its expiry.
TokenFiles == {"absent", "unreadable"} \cup Expiries

\* What the token endpoint does with a POST: issues a token, answers without
\* one, the request raises, or the endpoint never answers (no timeout).
TokenResponses == {"issued", "refused", "exc", "hang"}

BrokerageSources == {"domestic", "us_futures", "gold_spot"}

\* load_token_from_file: the two fields after the call; a missing or
\* unreadable file leaves them None.
load_token_from_file(file) ==
    IF file \in Expiries
    THEN [access_token |-> "token", token_expire_time |-> file]
    ELSE [access_token |-> "none", token_expire_time |-> "none"]

\* is_token_valid: False without a token or an expiry, else whether the clock
\* is before the expiry; an expiry without tzinfo raises AttributeError.
is_token_valid(token, expire_time) ==
    IF token = "none" \/ expire_time = "none" THEN "invalid"
    ELSE IF expire_time = "mistyped" THEN "raise"
    ELSE IF expire_time = "future" THEN "valid"
    ELSE "invalid"

\* get_access_token on the client state cur: an issued token is kept with an
\* expiry 23 hours ahead and written to the file; the call returns True only
\* when the file was written too.
get_access_token(cur, tokenResp, written) ==
    IF tokenResp = "issued"
    THEN [ok |-> written, access_token |-> "token", token_expire_time |-> "future",
          token_file |-> IF written THEN "future" ELSE cur.token_file,
          session |-> "live"]
    ELSE [ok |-> FALSE, access_token |-> cur.access_token,
          token_expire_time |-> cur.token_expire_time,
          token_file |-> cur.token_file, session |-> cur.session]

\* The head of each brokerage fetch with the request sent whatever the token.
SendsRequestAnyway(valid, renewed) == TRUE

\* The head of each brokerage fetch: the data request is reached when the
\* token was valid or get_access_token returned True.
SendsRequest(valid, renewed) == valid \/ renewed

\* The value a brokerage fetch returns.
ClientCall(source, auth, resp) ==
    CASE source = "domestic" -> get_gold_411060_data(auth, resp)
      [] source = "us_futures" -> get_us_gold_futures_data(auth, resp)
      [] source = "gold_spot" -> get_gd_gold_spot(auth, resp)

\* What the venue can answer to a request carrying a token in state sess: it
\* returns prices only for a live session.
Answers(sess) ==
    IF sess = "live" THEN VenueResponses
    ELSE {r \in VenueResponses : r.kind # "ok"}

ClientState ==
    [access_token |-> access_token, token_expire_time |-> token_expire_time,
     token_file |-> token_file, session |-> session, ok |-> TRUE]

ClientInit ==
    /\ InitLoops
    /\ NavIdle
    /\ gold_data = << >>
    /\ environ \in [APP_KEY : BOOLEAN, APP_SECRET : BOOLEAN]
    /\ token_file \in TokenFiles
    /\ access_token = "none"
    /\ token_expire_time = "none"
    /\ session \in IF token_file \in Expiries THEN {"live", "stale"} ELSE {"none"}
    /\ api = "unbuilt"
    /\ clientLog = NoClientLog

\* DataCollector(): KoreanInvestmentGoldAPI.__init__ raises without both
\* credentials, loads the token file, and asks for a token when
\* is_token_valid() is False, ignoring the result; the other constructors do
\* not raise.
Construct ==
    /\ api = "unbuilt"
    /\ \E tokenResp \in TokenResponses, written \in BOOLEAN :
          LET loaded == load_token_from_file(token_file)
              valid == is_token_valid(loaded.access_token, loaded.token_expire_time)
              cur == [ClientState EXCEPT !.access_token = loaded.access_token,
                                         !.token_expire_time = loaded.token_expire_time]
              issued == get_access_token(cur, tokenResp, written)
              missing == ~environ.APP_KEY \/ ~environ.APP_SECRET
              asks == ~missing /\ valid = "invalid"
              after == IF missing THEN ClientState
                       ELSE IF asks /\ tokenResp # "hang" THEN issued ELSE cur
          IN  /\ api' = IF missing \/ valid = "raise" THEN "aborted"
                        ELSE IF asks /\ tokenResp = "hang" THEN "blocked"
                        ELSE "built"
              /\ access_token' = after.access_token
              /\ token_expire_time' = after.token_expire_time
              /\ token_file' = after.token_file
              /\ session' = after.session
              /\ clientLog' = [clientLog EXCEPT
                                  !.renewal = IF ~asks THEN "none"
                                              ELSE IF tokenResp = "hang" THEN "hang"
                                              ELSE IF issued.ok THEN "ok" ELSE "failed"]
    /\ UNCHANGED << host, pc, pc2, running, collection_running, cycleVars, gold_data,
                    latest_data, response, stopRequested, paceVars, storeLog,
                    navArgs, navOuts, environ >>

\* The clock passes the expiry of the token.
Expire ==
    /\ api = "built"
    /\ token_expire_time = "future"
    /\ token_expire_time' = "past"
    /\ token_file' = IF token_file = "future" THEN "past" ELSE token_file
    /\ UNCHANGED << host, pc, pc2, running, collection_running, cycleVars, gold_data,
                    latest_data, response, stopRequested, paceVars, storeLog,
                    navArgs, navOuts, environ, access_token, session, api, clientLog >>

\* The venue ends the session of the token the client holds.
Revoke ==
    /\ api = "built"
    /\ session = "live"
    /\ session' = "stale"
    /\ UNCHANGED << host, pc, pc2, running, collection_running, cycleVars, gold_data,
                    latest_data, response, stopRequested, paceVars, storeLog,
                    navArgs, navOuts, environ, token_file, access_token,
                    token_expire_time, api, clientLog >>

\* One brokerage fetch of a cycle: the token test, the renewal it may make,
\* the data request and the value returned.  A POST or GET that is never
\* answered leaves the caller in the call.
ClientFetch ==
    /\ api = "built"
    /\ \E source \in BrokerageSources, tokenResp \in TokenResponses,
          written \in BOOLEAN, resp \in VenueResponses :
          LET valid == is_token_valid(access_token, token_expire_time) = "valid"
              asked == IF valid THEN ClientState
                       ELSE get_access_token(ClientState, tokenResp, written)
              waits == ~valid /\ tokenResp = "hang"
              auth == IF valid THEN "valid"
                      ELSE IF asked.ok THEN "renewed" ELSE "renew_failed"
              sends == ~waits /\ SendsRequest(valid, ~valid /\ asked.ok)
          IN  /\ sends => resp \in Answers(asked.session)
              /\ access_token' = asked.access_token
              /\ token_expire_time' = asked.token_expire_time
              /\ token_file' = asked.token_file
              /\ session' = asked.session
              /\ api' = IF waits \/ (sends /\ resp.kind = "hang") THEN "stuck"
                        ELSE "built"
              /\ clientLog' =
                    [source |-> source,
                     valid_at_start |-> valid,
                     renewal |-> IF valid THEN "none"
                                 ELSE IF tokenResp = "hang" THEN "hang"
                                 ELSE IF asked.ok THEN "ok" ELSE "failed",
                     request |-> sends,
                     request_token |->
                        IF sends THEN is_token_valid(asked.access_token,
                                                     asked.token_expire_time)
                        ELSE "none",
                     answer |-> IF sends THEN resp.kind ELSE "none",
                     stale |-> sends /\ valid /\ asked.session = "stale",
                     result |-> IF waits \/ (sends /\ resp.kind = "hang") THEN NoneV
                                ELSE ClientCall(source, auth, resp),
                     fetches |-> 1]
    /\ UNCHANGED << host, pc, pc2, running, collection_running, cycleVars, gold_data,
                    latest_data, response, stopRequested, paceVars, storeLog,
                    navArgs, navOuts, environ >>

ClientNext == Construct \/ Expire \/ Revoke \/ ClientFetch

ClientSpec == ClientInit /\ [][ClientNext]_vars

\* ------------------------------------------------------------------- claims
\* The persistence step of the cycle has run and collect_and_save_once is
\* about to return.
AfterPersist == pc \in {"pace", "cache"}

\* One of the three prices of a client's dict is strictly positive.
AnyPositive(v) ==
    \/ v.current_price > 0
    \/ v.kind = "dict" /\ (v.bid_price > 0 \/ v.ask_price > 0)

\* A Snapshot that is valid by the rule of the data model.
ValidSnapshot(v) == IsDict(v) /\ AnyPositive(v)

\* C1: a cycle that collected at least one valid Snapshot, with the store
\* reachable, appends exactly one record: save_market_data reports success
\* and the count afterwards is one greater than before the cycle.
C1_AppendsOneRecord ==
    (AfterPersist /\ persist.valid # {} /\ persist.reachable)
        => /\ persist.result = "true"
           /\ get_data_count(gold_data, TRUE) = get_data_count(persist.before, TRUE) + 1

\* C2: a cycle with no valid Snapshot and an unavailable metric (value 0)
\* does not call save_market_data, and the count is unchanged by the cycle.
C2_EmptyCycleNotSaved ==
    (persist.result # "none" /\ persist.valid = {} /\ persist.nav \in {0, Null})
        => /\ persist.calls = 0
           /\ get_data_count(gold_data, TRUE) = get_data_count(persist.before, TRUE)

\* C3: whatever subset of the sources fails (raises, returns an error string
\* or None, or all-zero prices), every other source is still fetched, its
\* valid Snapshot is in the cycle's result, and the cycle reaches valuation
\* and the persistence step with all four sources fetched.
C3_FaultIsolation ==
    \A s \in Sources :
        /\ pc \in {"valuate", "persist", "pace", "cache"} => returned[s] # Unfetched
        /\ ValidSnapshot(returned[s]) => collected[s] = returned[s]

\* C4: a Snapshot a client returns is accepted into the cycle's result if and
\* only if one of its current, bid and ask price is strictly positive, for
\* each of the four sources.
C4_AcceptIffAnyPositive ==
    \A s \in Sources :
        IsDict(returned[s]) => (Truthy(collected[s]) <=> AnyPositive(returned[s]))

\* The price columns of one source in a tuple of bound values are all null,
\* or one of them is positive.
TripleOk(values, cur, bid, ask) ==
    \/ values[cur] = Null /\ values[bid] = Null /\ values[ask] = Null
    \/ values[cur] > 0 \/ values[bid] > 0 \/ values[ask] > 0

RowOk(values) ==
    /\ TripleOk(values, 3, 4, 6)
    /\ TripleOk(values, 8, 9, 11)
    /\ TripleOk(values, 13, 14, 16)
    /\ values[2] = Null \/ values[2] > 0

\* C5: in every record handed to the store (the values bound to the INSERT,
\* and every row of the table), the price columns of each source are all null
\* or come from a Snapshot with a positive current, bid or ask price: an
\* all-zero Snapshot never contributes columns.
C5_RowsFromValidSnapshots ==
    /\ persist.values # << >> => RowOk(persist.values)
    /\ \A i \in 1..Len(gold_data) : RowOk(gold_data[i].values)

\* A cycle bound a row in which the domestic Snapshot (current price 0, bid
\* positive) contributes its columns, while the all-zero dict the US futures
\* client returned contributes none.
C5_Witness ==
    /\ AfterPersist
    /\ persist.calls = 1
    /\ persist.values # << >>
    /\ persist.values[3] = 0 /\ persist.values[4] > 0
    /\ returned.us_futures = Snapshot(0, 0, 0)
    /\ persist.values[8] = Null

\* C6: for a reference price p > 0 the metric is round(p * 0.14, 2), that is
\* 14 * p hundredths, with status "ok" (155000 gives 21700.00); for p <= 0,
\* and for an absent gold spot Snapshot, the metric is 0 with status
\* "unavailable".
C6_NavFormula ==
    /\ navOuts.kind = "calculate_nav" =>
          LET p == navArgs.price
              out == navOuts.out
          IN  /\ p > 0 => out.nav_value = 14 * p /\ out.calculation_status = "ok"
              /\ p <= 0 => out.nav_value = 0 /\ out.calculation_status = "unavailable"
              /\ p = 155000 => out.nav_value = 2170000
    /\ navOuts.kind = "with_all_data" =>
          LET spot == navArgs.a.gold_spot
              out == navOuts.a
          IN  /\ spot.kind = "None" =>
                    out.nav_value = 0 /\ out.calculation_status = "unavailable"
              /\ spot.kind = "dict" /\ spot.current_price > 0 =>
                    out.nav_value = 14 * spot.current_price
                    /\ out.calculation_status = "ok"
              /\ spot.kind = "dict" /\ spot.current_price <= 0 =>
                    out.nav_value = 0 /\ out.calculation_status = "unavailable"

\* calculate_nav was applied to the price 155000 and returned 21700.00.
C6_Witness ==
    /\ navOuts.kind = "calculate_nav"
    /\ navArgs.price = SampleSpotPrice
    /\ navOuts.out.nav_value = 2170000
    /\ navOuts.out.calculation_status = "ok"

\* C7: two market_data dicts that agree on the gold spot Snapshot give the
\* same metric value, however they differ in the other three sources; with
\* the gold spot Snapshot absent the value is 0, whatever the others hold.
C7_NavFromGoldSpotOnly ==
    navOuts.kind = "with_all_data" =>
        /\ navArgs.a.gold_spot = navArgs.b.gold_spot =>
              navOuts.a.nav_value = navOuts.b.nav_value
        /\ navArgs.a.gold_spot.kind = "None" => navOuts.a.nav_value = 0
        /\ navArgs.b.gold_spot.kind = "None" => navOuts.b.nav_value = 0

\* Both dicts lack the gold spot Snapshot, one holds a domestic, a US futures
\* and a USD/KRW price and the other holds none, and both calls returned.
C7_Witness ==
    /\ navOuts.kind = "with_all_data"
    /\ navArgs.a.gold_spot.kind = "None" /\ navArgs.b.gold_spot.kind = "None"
    /\ navArgs.a.domestic.kind = "dict" /\ navArgs.a.us_futures.kind = "dict"
    /\ navArgs.a.usd_krw.kind = "rate"
    /\ navArgs.b.domestic.kind = "None" /\ navArgs.b.us_futures.kind = "None"
    /\ navArgs.b.usd_krw.kind = "None"
    /\ navOuts.a.nav_value = 0 /\ navOuts.b.nav_value = 0

\* A cycle is between its start and its return to the loop test or sleep.
CycleRunning ==
    pc \in {"fetch_domestic", "fetch_us", "fetch_spot", "fetch_usd", "valuate",
            "persist", "pace", "cache", "blocked"}

\* C8: every cycle that starts eventually completes (the loop is back at its
\* test or its sleep), even when one source never answers its request.
C8_CycleCompletes == CycleRunning ~> ~CycleRunning

\* C9: no failure within a cycle ends the loop.  The loop ends only after a
\* stop was requested; no step of a cycle leaves the loop; and at the loop
\* test, with no stop requested, the next cycle starts.  For both hosts.
C9_LoopSurvivesFailures ==
    [][ /\ pc' = "done" => stopRequested'
        /\ CycleRunning => pc' \in {"fetch_domestic", "fetch_us", "fetch_spot",
                                    "fetch_usd", "valuate", "persist", "pace",
                                    "cache", "blocked", "sleeping", "loop_check"}
        /\ (pc = "loop_check" /\ ~stopRequested) => pc' = "fetch_domestic"
      ]_vars

\* The collector's loop is back at its test, still running, after a cycle in
\* which every source failed, the valuation was unavailable, the append
\* failed and the period was overrun.
C9_Witness ==
    /\ host = "collector"
    /\ pc = "loop_check"
    /\ running
    /\ ~stopRequested
    /\ persist.result = "false"
    /\ persist.valid = {}
    /\ persist.nav = 0
    /\ sleep_time = 0

\* C10: a failed append is reported as False (never True), leaves the table
\* as it was, is not retried within the cycle, and the cycle goes on to the
\* loop's sleep or test.
C10_FailedAppendReported ==
    /\ [](/\ persist.calls <= 1
          /\ persist.result = "false" => gold_data = persist.before
          /\ (persist.calls = 1 /\ ~persist.reachable) => persist.result = "false"
          /\ (persist.calls = 1 /\ gold_data = persist.before)
                => persist.result = "false")
    /\ [][ (AfterPersist /\ persist.result = "false")
              => /\ pc' \in {"sleeping", "loop_check"}
                 /\ gold_data' = gold_data
                 /\ persist'.calls = 1
                 /\ persist'.result = "false"
         ]_vars

\* A cycle whose append failed because the store could not be reached has
\* returned to the loop test with the table unchanged.
C10_Witness ==
    /\ pc = "loop_check"
    /\ persist.calls = 1
    /\ persist.result = "false"
    /\ ~persist.reachable
    /\ persist.valid # {}
    /\ gold_data = persist.before

RequiredPause(e) == IF Period - e > 0 THEN Period - e ELSE 0

\* C13: after each cycle the loop pauses for exactly max(0, period - elapsed)
\* (0.3 s of work gives 0.7 s of pause), and a cycle longer than the period
\* gives no pause and a recorded overrun.  For both loops.
C13_PacingFormula ==
    (pc \in {"sleeping", "loop_check"} /\ persist.result # "none")
        => /\ sleep_time = RequiredPause(elapsed)
           /\ elapsed > Period => (sleep_time = 0 /\ overrun)

\* A loop at position p is between the start of a cycle and its return to
\* the loop test or sleep.
InCycle(p) ==
    p \in {"fetch_domestic", "fetch_us", "fetch_spot", "fetch_usd", "valuate",
           "persist", "pace", "cache", "blocked"}

\* C14: no two cycles overlap.  While a loop is within a cycle, every other
\* loop is parked (not started, asleep or ended), so no other cycle is in
\* progress or begins before this one has returned; start, stop and API
\* calls happen only while no cycle is in progress.
C14_NoOverlap ==
    \A t \in Tasks :
        InCycle(PcOf(t)) => \A u \in Tasks \ {t} : Parked(PcOf(u)) /\ ~InCycle(PcOf(u))

\* Two loops exist: the second is at the persistence step of its cycle while
\* the first, which has run a cycle before, is asleep.
C14_Witness ==
    /\ pc = "sleeping"
    /\ pc2 = "persist"
    /\ returned.usd_krw # Unfetched

\* The stop flag of the host is cleared: stop_collection or shutdown_event
\* has run (and no start has set the flag again).
FlagCleared == IF host = "collector" THEN ~running ELSE ~collection_running

\* C15: a stop request never interrupts a cycle in progress (a step taken
\* within a cycle leaves the flag alone and does not end the loop), it takes
\* effect at the next idle boundary (at the loop test with the flag cleared
\* the loop ends instead of starting a cycle, and an ended loop starts none),
\* and the loop that was asked to stop eventually terminates.
C15_StopAtIdleBoundary ==
    /\ [][ /\ CycleRunning => /\ pc' # "done"
                               /\ running' = running
                               /\ collection_running' = collection_running
                               /\ stopRequested' = stopRequested
           /\ (pc = "loop_check" /\ FlagCleared) => pc' = "done"
           /\ pc = "done" => pc' = "done"
         ]_vars
    /\ (pc \in {"sleeping", "loop_check"} /\ FlagCleared) ~> (pc = "done")

\* The collector's loop has ended after a stop that was requested during the
\* pause that followed a completed cycle.
C15_Witness ==
    /\ host = "collector"
    /\ pc = "done"
    /\ stopRequested
    /\ ~running
    /\ persist.result = "false"
    /\ sleep_time > 0

\* The positions, in the values bound to the INSERT, of a source's columns.
ColumnsOf(s) ==
    IF s = "usd_krw" THEN {2}
    ELSE IF s = "domestic" THEN 3..7
    ELSE IF s = "us_futures" THEN 8..12
    ELSE 13..17

\* The positions of the price columns and of nav_value (the sizes are not
\* varied by the model).
NumericColumns == {2, 3, 4, 6, 8, 9, 11, 13, 14, 16, 18}

\* C16: in the values handed to the store every absent or unknown numeric
\* field is null, never 0: the columns of a source with no entry, an unknown
\* bid or ask of an accepted Snapshot, and nav_value when the valuation is
\* unavailable.
C16_AbsentStoredAsNull ==
    persist.values # << >>
        => /\ \A s \in Sources \ persist.valid :
                 \A i \in ColumnsOf(s) : persist.values[i] = Null
           /\ \A i \in NumericColumns : persist.values[i] # 0

\* C17: the timestamp of the record a cycle hands to the store is the time
\* at which the cycle started (the collection_time of collect_all_data), not
\* the time at which the record is written.
C17_TimestampIsCycleStart ==
    persist.values # << >> => persist.values[1] = collected.timestamp

\* C18: the loop writes the cache only in a cycle that appended a record: the
\* step the loop takes after a cycle whose persistence step was skipped or
\* whose append failed leaves latest_data exactly as it was, None included.
C18_CacheOnlyAfterAppend ==
    [][ (pc = "cache" /\ pc' # "cache" /\ persist.result # "true")
            => latest_data' = latest_data ]_vars

\* C19: a read of /api/latest that finds the cache unset answers from the
\* store: with the store empty, or the query failing, the reply is "no data"
\* (success false, no record); with rows in a store that can be reached it
\* carries rows of the store.  The handler always replies.
C19_ReadFallsBackToStore ==
    (response.kind = "reply" /\ response.unset)
        => /\ (gold_data = << >> \/ ~response.reachable)
                 => (~response.success /\ response.data = << >>)
           /\ (gold_data # << >> /\ response.reachable)
                 => /\ response.success
                    /\ response.data # << >>
                    /\ \A i \in 1..Len(response.data) :
                          \E j \in 1..Len(gold_data) : response.data[i] = gold_data[j]

\* A read served after startup and before the loop's first cycle, with the
\* cache unset and the store empty but reachable, was answered "no data".
C19_Witness ==
    /\ response.kind = "reply"
    /\ response.unset
    /\ response.reachable
    /\ gold_data = << >>
    /\ ~response.success
    /\ latest_data = [kind |-> "list", rows |-> << >>]
    /\ pc = "not_started"

\* A loop at position p exists and has not ended.
Live(p) == p \notin {"absent", "no_task", "done"}

\* C20: start and stop are idempotent.  A start invoked while a loop exists
\* creates no second loop (at most one loop drives cycles at any time), and
\* a stop invoked when the system is already stopped changes nothing.
C20_StartStopIdempotent ==
    /\ [](~(Live(pc) /\ Live(pc2)))
    /\ [][ (FlagCleared /\ stopRequested /\ (StopCollection \/ Shutdown))
              => UNCHANGED vars ]_vars

WithoutTimestamp(r) == [f \in (DOMAIN r) \ {"timestamp"} |-> r[f]]

Configured == environ.APP_KEY /\ environ.APP_SECRET

\* C22 as stated: construction fails, and no fetch is ever made, when a
\* credential is missing, and that is the only way construction does not
\* complete: with both credentials the collector is built, whatever the token
\* file holds and whatever the token endpoint does.
C22_OnlyMissingCredentialsAbort ==
    /\ (~Configured /\ api # "unbuilt") => (api = "aborted" /\ clientLog.fetches = 0)
    /\ (Configured /\ api # "unbuilt") => api \in {"built", "stuck"}

\* C25: in every brokerage fetch, a token that is missing or expired at the
\* start is renewed before any data request; when the renewal fails the fetch
\* returns a failure string and sends no data request; and a data request is
\* only sent with a token the client holds valid.
C25_RenewBeforeRequest ==
    clientLog.fetches = 1
        => /\ ~clientLog.valid_at_start => clientLog.renewal # "none"
           /\ clientLog.renewal = "failed"
                => (clientLog.result = StrV /\ ~clientLog.request)
           /\ clientLog.request => clientLog.request_token = "valid"

\* A fetch started with an expired token, its renewal failed, and it returned
\* the failure string without a data request.
C25_Witness ==
    /\ clientLog.fetches = 1
    /\ access_token = "token"
    /\ token_expire_time = "past"
    /\ clientLog.renewal = "failed"
    /\ ~clientLog.request
    /\ clientLog.result = StrV

\* C26 as stated: a fetch whose request was rejected with rt_cd "1" while the
\* token had not expired locally reports a failure and leaves the client
\* with a renewed token, one the venue accepts.
C26_StaleSessionRenewed ==
    [][(clientLog' # clientLog /\ clientLog'.stale /\ clientLog'.answer = "rt1")
          => (~IsDict(clientLog'.result) /\ session' = "live")]_vars

\* C23: every operation of the store (opening it, an append, a count, a
\* query) leaves each row the table already holds as it was and removes
\* none; an append that reports success adds exactly one row, whose id is
\* greater than every id in the table, and nothing else adds a row.
C23_AppendOnly ==
    [][/\ Len(gold_data') >= Len(gold_data)
       /\ \A i \in 1..Len(gold_data) : gold_data'[i] = gold_data[i]
       /\ IF storeLog'.op = "append" /\ storeLog'.ok
          THEN /\ Len(gold_data') = Len(gold_data) + 1
               /\ \A i \in 1..Len(gold_data) :
                      gold_data'[Len(gold_data')].id > gold_data[i].id
          ELSE gold_data' = gold_data]_vars

\* An append was attempted on a table that held rows, and the rows are the
\* ones it held.
C23_Witness ==
    /\ storeLog.op = "append"
    /\ storeLog.before = MaxRows
    /\ Len(gold_data) = MaxRows
    /\ gold_data \in StoredTables

\* The positions of a cycle's fetch phase.
FetchPhase == {"fetch_domestic", "fetch_us", "fetch_spot", "fetch_usd"}

\* C24 as stated: the fetches of a cycle run concurrently: while the cycle is
\* in its fetch phase, every source whose answer is still outstanding can be
\* the next to return, none waits for another source's answer.
C24_FetchesConcurrent ==
    (pc \in FetchPhase /\ pc2 = "absent")
        => /\ returned.us_futures = Unfetched => ENABLED FetchUsFutures
           /\ returned.gold_spot = Unfetched => ENABLED FetchGoldSpot
           /\ returned.usd_krw = Unfetched => ENABLED FetchUsdKrw

\* The metric column of a row agrees with its gold spot price column: 14 * p
\* hundredths for a price p > 0, and 0 when the gold spot columns are NULL.
MetricOk(values) ==
    /\ values[13] # Null => (values[13] > 0 /\ values[18] = 14 * values[13])
    /\ values[13] = Null => values[18] = 0

\* C27: in every row bound for the INSERT and in every row of the table, a
\* gold spot current price p > 0 goes with the metric round(p * 0.14, 2), and
\* absent gold spot columns go with the unavailable value 0; the metric is
\* that of the row's own cycle, whatever earlier cycles collected.
C27_MetricMatchesRow ==
    /\ persist.values # << >> => MetricOk(persist.values)
    /\ \A i \in 1..Len(gold_data) : MetricOk(gold_data[i].values)
    /\ (AfterPersist /\ persist.calls = 1)
          => persist.values[13] = Col(collected.gold_spot, "current_price")

\* A cycle bound a row whose gold spot price is positive and whose metric is
\* 0.14 times that price.
C27_Witness ==
    /\ AfterPersist
    /\ persist.calls = 1
    /\ persist.values[13] = MaxPrice
    /\ persist.values[18] = 14 * MaxPrice
    /\ returned.gold_spot = Snapshot(MaxPrice, 0, 0)

\* C28 as stated: once stop_collection() was called on a collector whose
\* start_real_time_collection() task exists, whether or not the task has run
\* yet, the flag stays cleared and the loop ends at its next loop test: it
\* starts no cycle after the one in progress.
C28_StopNeverLost ==
    [][(host = "collector" /\ stopRequested)
          => /\ running' = FALSE
             /\ pc = "loop_check" => pc' = "done"]_vars

\* What db_manager.get_latest_data() can return on the table: the newest rows
\* as a whole, or the empty list of a query that failed.
QueryResults ==
    get_latest_data(gold_data, DefaultLimit, TRUE)
        \cup get_latest_data(gold_data, DefaultLimit, FALSE)

====
